---------------------------- MODULE Spec2Model ----------------------------
(***************************************************************************)
(* A model of the crypto-trading repository: the fee manager's lot-size    *)
(* rounding and order validation, BaseStrategy's order execution, the      *)
(* TradingBot live loop (signal fusion, forced exits, position tracking),  *)
(* the BacktestEngine replay, the moving-average crossover strategy, the   *)
(* RSI indicator, the fee-aware position sizing and the Position record.   *)
(*                                                                         *)
(* Numbers.  The source computes with floats; the model computes with      *)
(* exact integers.  A quantity is a whole number of units of 1e-8 of the   *)
(* base asset (the tolerance of validate_order_parameters is one unit), a  *)
(* price is a whole number of quote units per quantity unit, a time is a   *)
(* whole number of minutes.  Fees are kept in thousandths of a quote unit  *)
(* (the taker rate is 1/1000), so every product stays an integer.          *)
(* Averages, percentages and amounts that the source obtains by division  *)
(* are kept as exact fractions and compared by cross-multiplication.       *)
(***************************************************************************)
EXTENDS Integers, Sequences, FiniteSets, TLC

VARIABLES
    bot,        \* the TradingBot object and its clock
    strategy,   \* the BaseStrategy object used as TradingBot.strategy
    tick,       \* what the last iteration of TradingBot.run did
    call,       \* the last direct call of a method: arguments and result
    rq,         \* the last FeeManager call: arguments, filters, result
    bt,         \* the BacktestEngine object during run_backtest
    sma_strategy,   \* the SimpleMovingAverageStrategy replayed by a backtest
    rsi_indicator,  \* an RSIIndicator object
    rsi_volume_strategy     \* the RSIVolumeStrategy and the tick it is asked about

vars == <<bot, strategy, tick, call, rq, bt, sma_strategy, rsi_indicator,
          rsi_volume_strategy>>

Abs(x) == IF x < 0 THEN -x ELSE x

Max(a, b) == IF a >= b THEN a ELSE b

\* A quotient of the source is kept as the fraction num/den, den > 0.
Fraction(num, den) == [num |-> num, den |-> den]

Less(a, b) == a.num * b.den < b.num * a.den

LessEq(a, b) == a.num * b.den <= b.num * a.den

Equal(a, b) == a.num * b.den = b.num * a.den

RECURSIVE GCD(_, _)
GCD(a, b) == IF b = 0 THEN a ELSE GCD(b, a % b)

\* The same fraction in lowest terms, for num >= 0.
Reduced(f) ==
    LET g == GCD(f.num, f.den) IN Fraction(f.num \div g, f.den \div g)

Times(a, b) == Reduced(Fraction(a.num * b.num, a.den * b.den))

RECURSIVE Sum(_)
Sum(s) == IF s = <<>> THEN 0 ELSE Head(s) + Sum(Tail(s))

\* The Python slice s[-n:], n > 0.
LastN(s, n) == IF Len(s) > n THEN SubSeq(s, Len(s) - n + 1, Len(s)) ELSE s

-----------------------------------------------------------------------------
(* Bounds of the model.                                                    *)

MaxStep == 4        \* stepSize ranges over 1..MaxStep
MaxMinQty == 4      \* minQty ranges over 0..MaxMinQty
MaxQty == 7         \* requested quantities and balances range over 0..MaxQty
MaxLiveTicks == 2   \* iterations of TradingBot.run that are followed
MaxTrades == 2      \* an iteration starts only with fewer trades made than this
MaxTicks == 3       \* length of the historical series of a backtest

-----------------------------------------------------------------------------
(* FeeManager (src/src/utils/fee_manager.py).                              *)

\* |quantity - expected| > 0.00000001 marks a misaligned quantity; one unit.
QtyTolerance == 1

\* What get_symbol_filters can return for the symbol: {} when the exchange
\* info cannot be fetched or the symbol is unknown, the LOT_SIZE filter
\* alone, or LOT_SIZE and NOTIONAL.
FilterStates == {"none", "lot", "all"}

\* Python's int(): truncation, which is floor for the non-negative steps here.
IntPart(q, step) == q \div step

\* Python's round(): to the nearest integer, a tie to the even one.
RoundHalfEven(q, step) ==
    LET k == q \div step
        r == q % step
    IN  IF 2 * r < step THEN k
        ELSE IF 2 * r > step THEN k + 1
        ELSE IF k % 2 = 0 THEN k ELSE k + 1

\* The sell branch of round_quantity: floor to the step, then one step up
\* when the balance covers it.
RoundForSell(q, step, available) ==
    LET steps == IntPart(q, step)
    IN  IF available >= (steps + 1) * step
        THEN (steps + 1) * step
        ELSE steps * step

\* The buy / unknown-balance branch of round_quantity.
RoundNearest(q, step) == RoundHalfEven(q, step) * step

\* "Ensure minimum quantity": a rounded quantity below minQty becomes minQty.
\* (The 1e-10 check that follows it in the source changes nothing on whole
\* units: a magnitude under 1e-10 is 0 already.)
EnsureMinimum(rounded, minQty) == IF rounded < minQty THEN minQty ELSE rounded

\* FeeManager.round_quantity.  rules = [stepSize, minQty, maxQty, minNotional];
\* filters says which filters get_symbol_filters returned on this call;
\* balanceKnown is "available_balance is not None".
round_quantity(q, rules, filters, balanceKnown, available, is_sell_order) ==
    IF filters = "none"
    THEN q
    ELSE EnsureMinimum(
            IF is_sell_order /\ balanceKnown
            THEN RoundForSell(q, rules.stepSize, available)
            ELSE RoundNearest(q, rules.stepSize),
            rules.minQty)

\* The LOT_SIZE checks of validate_order_parameters.
LotSizeOk(q, rules) ==
    /\ ~(q < rules.minQty)
    /\ ~(q > rules.maxQty)
    /\ ~(Abs(q - RoundHalfEven(q, rules.stepSize) * rules.stepSize) > QtyTolerance)

\* The NOTIONAL check: skipped when no price is given or the price is 0.
NotionalOk(q, price, rules) ==
    price = 0 \/ ~(q * price < rules.minNotional)

\* FeeManager.validate_order_parameters: the value of validation['valid'].
validate_order_parameters(q, price, rules, filters) ==
    /\ filters \in {"lot", "all"} => LotSizeOk(q, rules)
    /\ filters = "all" => NotionalOk(q, price, rules)

\* The symbol rules an exchange can publish, with stepSize > 0.
SymbolRules ==
    [stepSize : 1..MaxStep, minQty : 0..MaxMinQty,
     maxQty : {MaxQty}, minNotional : {0}]

NoCall == [op |-> "none"]

\* A call of round_quantity for a sell with a known balance, as execute_sell
\* makes it.
RoundCall ==
    /\ rq.op = "none"
    /\ \E q \in 0..MaxQty, b \in 0..MaxQty, rules \in SymbolRules, f \in FilterStates :
        rq' = [op |-> "round_sell", quantity |-> q, available |-> b,
               rules |-> rules, filters |-> f,
               result |-> round_quantity(q, rules, f, TRUE, b, TRUE)]
    /\ UNCHANGED <<bot, strategy, tick, call, bt, sma_strategy, rsi_indicator,
                 rsi_volume_strategy>>

\* test_quantity_rounding: round_quantity(quantity, symbol) in its buy /
\* unknown-balance mode, then validate_order_parameters(symbol, rounded)
\* without a price.
RoundBuyCall ==
    /\ rq.op = "none"
    /\ \E q \in 0..MaxQty, rules \in SymbolRules, f \in FilterStates :
        LET rounded == round_quantity(q, rules, f, FALSE, 0, FALSE)
        IN  rq' = [op |-> "round_buy", quantity |-> q, available |-> 0,
                   rules |-> rules, filters |-> f, result |-> rounded,
                   valid |-> validate_order_parameters(rounded, 0, rules, f)]
    /\ UNCHANGED <<bot, strategy, tick, call, bt, sma_strategy, rsi_indicator,
                 rsi_volume_strategy>>

-----------------------------------------------------------------------------
(* Position (src/src/models/position.py).                                  *)

\* get_holding_time_hours divides the whole minutes by 60.0.
MinutesPerHour == 60

\* sell_fee_rate = 0.001, in thousandths.
SellFeePerMille == 1

NoPosition ==
    [open |-> FALSE, quantity |-> 0, buy_price |-> 0, buy_time |-> 0,
     buy_value |-> 0, fees_paid |-> 0]

\* Position.__init__: buy_value is fixed at construction, fees_paid starts at 0
\* (fees_paid is kept in thousandths of a quote unit).
NewPosition(quantity, buy_price, buy_time) ==
    [open |-> TRUE, quantity |-> quantity, buy_price |-> buy_price,
     buy_time |-> buy_time, buy_value |-> quantity * buy_price, fees_paid |-> 0]

\* calculate_net_profit, in thousandths: current_value - buy_value -
\* (fees_paid + current_value * sell_fee_rate).
NetProfitMilli(pos, price) ==
    LET current_value == pos.quantity * price
    IN  1000 * current_value - 1000 * pos.buy_value
        - (pos.fees_paid + current_value * SellFeePerMille)

\* calculate_profit_percentage(price) >= pct, for buy_value > 0:
\* (net_profit / buy_value) * 100 >= pct.
ProfitPctAtLeast(pos, price, pct) ==
    NetProfitMilli(pos, price) * 100 >= pct * pos.buy_value * 1000

\* calculate_profit_percentage(price) <= pct, for buy_value > 0.
ProfitPctAtMost(pos, price, pct) ==
    NetProfitMilli(pos, price) * 100 <= pct * pos.buy_value * 1000

\* calculate_profit_percentage without the estimated sell fee.
ProfitPercentageWithoutSellFee(pos, current_price, sell_fee_rate) ==
    LET current_value == pos.quantity * current_price
    IN  Fraction((1000 * current_value - 1000 * pos.buy_value - pos.fees_paid) * 100,
                 1000 * pos.buy_value)

\* Position.calculate_profit_percentage, for buy_value > 0; sell_fee_rate is
\* in thousandths (the default 0.001 is SellFeePerMille).
calculate_profit_percentage(pos, current_price, sell_fee_rate) ==
    LET current_value == pos.quantity * current_price
        sell_fees == current_value * sell_fee_rate
        total_fees == pos.fees_paid + sell_fees
        net_profit == 1000 * current_value - 1000 * pos.buy_value - total_fees
    IN  Fraction(net_profit * 100, 1000 * pos.buy_value)

get_holding_time_minutes(pos, now) == now - pos.buy_time

should_sell_for_profit(pos, price, min_profit_percentage) ==
    ProfitPctAtLeast(pos, price, min_profit_percentage)

\* get_holding_time_hours() >= max_holding_hours.
should_sell_for_time(pos, now, max_holding_hours) ==
    get_holding_time_minutes(pos, now) >= max_holding_hours * MinutesPerHour

should_sell_for_stop_loss(pos, price, stop_loss_percentage) ==
    ProfitPctAtMost(pos, price, -stop_loss_percentage)

-----------------------------------------------------------------------------
(* Signal fusion (src/src/strategies/trading_bot.py).                      *)

\* RSIIndicator.is_oversold / is_overbought of an RSI reading: below 30,
\* above 70, or neither.
RsiStates == {"oversold", "neutral", "overbought"}

is_oversold(rsi) == rsi = "oversold"

is_overbought(rsi) == rsi = "overbought"

\* The tier the if/elif chain of _evaluate_buy_signals selects.
BuyTier(sma_buy, rsi_buy, rsi) ==
    IF sma_buy /\ rsi_buy THEN "STRONG"
    ELSE IF rsi_buy /\ is_oversold(rsi) THEN "CONSERVATIVE"
    ELSE IF sma_buy /\ ~is_overbought(rsi) THEN "MODERATE"
    ELSE "NONE"

\* TradingBot._evaluate_buy_signals.  Every tier does
\* self.combined_signals += 1 before it returns; the counter is created in
\* the tail of _recover_position, which the early return for disabled Mongo
\* logging skips, and the AttributeError is caught and answered with None.
_evaluate_buy_signals(sma_buy, rsi_buy, rsi, counters) ==
    LET tier == BuyTier(sma_buy, rsi_buy, rsi)
    IN  IF tier # "NONE" /\ ~counters THEN "NONE" ELSE tier

\* The buy policy with MODERATE admitted for a new position.
ShouldBuyModerate(tier, has_position) ==
    IF tier = "NONE" THEN FALSE
    ELSE IF ~has_position THEN tier \in {"MODERATE", "CONSERVATIVE", "STRONG"}
    ELSE tier = "STRONG"

\* The policy of _process_enhanced_trading_signals: is the buy executed?
ShouldBuy(tier, has_position) ==
    IF tier = "NONE" THEN FALSE
    ELSE IF ~has_position THEN tier \in {"CONSERVATIVE", "STRONG"}
    ELSE tier = "STRONG"

\* The three forced exits, in the order _evaluate_sell_signals tests them.
ForcedExit(pos, price, now, config) ==
    \/ should_sell_for_profit(pos, price, config.min_profit_percentage)
    \/ should_sell_for_time(pos, now, config.max_position_age_hours)
    \/ should_sell_for_stop_loss(pos, price, config.stop_loss_percentage)

\* The minimum-holding veto.
TooYoung(pos, now, config) ==
    get_holding_time_minutes(pos, now) < config.min_holding_time_minutes

\* The combined-signal rules: Strong, Moderate, Conservative.
CombinedSell(sma_sell, rsi_sell, rsi) ==
    \/ sma_sell /\ rsi_sell
    \/ sma_sell /\ ~is_oversold(rsi)
    \/ rsi_sell /\ is_overbought(rsi)

\* _evaluate_sell_signals with the minimum-holding veto tested before the
\* forced exits.
EvaluateSellVetoFirst(pos, price, now, sma_sell, rsi_sell, rsi, config, counters) ==
    IF pos.open /\ TooYoung(pos, now, config)
    THEN [sell |-> FALSE, consulted |-> FALSE]
    ELSE IF pos.open /\ ForcedExit(pos, price, now, config)
    THEN [sell |-> TRUE, consulted |-> FALSE]
    ELSE [sell |-> CombinedSell(sma_sell, rsi_sell, rsi) /\ counters,
          consulted |-> TRUE]

\* _evaluate_sell_signals without the minimum-holding veto.
EvaluateSellNoVeto(pos, price, now, sma_sell, rsi_sell, rsi, config, counters) ==
    IF pos.open /\ ForcedExit(pos, price, now, config)
    THEN [sell |-> TRUE, consulted |-> FALSE]
    ELSE [sell |-> CombinedSell(sma_sell, rsi_sell, rsi) /\ counters,
          consulted |-> TRUE]

\* TradingBot._evaluate_sell_signals: [sell, consulted], consulted telling
\* whether the combined-signal rules were reached.  A matching combined rule
\* increments self.combined_signals, which raises (and returns False) when
\* the counters were never created.
_evaluate_sell_signals(pos, price, now, sma_sell, rsi_sell, rsi, config, counters) ==
    IF pos.open /\ ForcedExit(pos, price, now, config)
    THEN [sell |-> TRUE, consulted |-> FALSE]
    ELSE IF pos.open /\ TooYoung(pos, now, config)
    THEN [sell |-> FALSE, consulted |-> FALSE]
    ELSE [sell |-> CombinedSell(sma_sell, rsi_sell, rsi) /\ counters,
          consulted |-> TRUE]

-----------------------------------------------------------------------------
(* BaseStrategy (src/src/strategies/base_strategy.py).                     *)

Prices == {9, 10, 11}

\* The lot-size and notional rules of the traded symbol in the live model.
LiveRules == [stepSize |-> 4, minQty |-> 4, maxQty |-> 8, minNotional |-> 40]

\* get_symbol_filters in the live model: it failed, or it returned both filters.
LiveFilters == {"none", "all"}

NoOrder == [side |-> "NONE", quantity |-> 0, price |-> 0]

\* The outside world during one execute_buy: which client call raises (the
\* price fetch, the balance fetch, place_order, or none), the ticker price,
\* what get_symbol_filters returns and the free quote balance.  prices is the
\* set the ticker price is drawn from.
BuyEnvs(prices) ==
    [fail : {"price", "balance", "place", "none"}, price : prices,
     filters : LiveFilters, balance : {0, 100}]

\* The outside world during one execute_sell: which client call raises (the
\* price fetch before the order, place_order, the price fetch after the
\* order, or none), the ticker price, and what get_symbol_filters returns to
\* round_quantity and to validate_order_parameters.
SellEnvs(prices) ==
    [fail : {"price", "place", "price2", "none"}, price : prices,
     filtersRound : LiveFilters, filtersValidate : LiveFilters]

\* The Trade record appended for an order: its side and quantity.
Trade(order) == [side |-> order.side, quantity |-> order.quantity]

\* BaseStrategy.execute_buy(symbol, q): [trade, st, sent, placed].  trade is
\* FALSE for a None result; sent is the order place_order was called with, if
\* it was called; placed tells whether place_order returned.
execute_buy(st, q, env) ==
    LET order == [side |-> "BUY", quantity |-> q, price |-> env.price]
        nothing == [trade |-> FALSE, st |-> st, sent |-> NoOrder, placed |-> FALSE]
    IN  IF env.fail = "price" THEN nothing
        ELSE IF st.fee_manager
                /\ ~validate_order_parameters(q, env.price, LiveRules, env.filters)
        THEN nothing
        ELSE IF env.fail = "balance" THEN nothing
        ELSE IF env.balance < q * env.price THEN nothing
        ELSE IF env.fail = "place"
        THEN [trade |-> FALSE, st |-> st, sent |-> order, placed |-> FALSE]
        ELSE [trade |-> TRUE,
              st |-> [st EXCEPT !.trades = Append(@, Trade(order)),
                                !.positions = @ + q],
              sent |-> order, placed |-> TRUE]

\* execute_sell booking the trade and the holding before place_order is
\* called, so that a failed placement leaves them booked.
ExecuteSellBookFirst(st, q, env) ==
    LET held == st.positions
        qty == IF st.fee_manager
               THEN round_quantity(q, LiveRules, env.filtersRound, TRUE, held, TRUE)
               ELSE q
        order == [side |-> "SELL", quantity |-> qty, price |-> env.price]
        booked == [st EXCEPT !.trades = Append(@, Trade(order)),
                             !.positions = held - qty]
        nothing == [trade |-> FALSE, st |-> st, sent |-> NoOrder, placed |-> FALSE]
    IN  IF env.fail = "price" THEN nothing
        ELSE IF st.fee_manager
                /\ ~validate_order_parameters(qty, env.price, LiveRules,
                                              env.filtersValidate)
        THEN nothing
        ELSE IF held < qty THEN nothing
        ELSE IF env.fail = "place"
        THEN [trade |-> FALSE, st |-> booked, sent |-> order, placed |-> FALSE]
        ELSE IF env.fail = "price2"
        THEN [trade |-> FALSE, st |-> st, sent |-> order, placed |-> TRUE]
        ELSE [trade |-> TRUE, st |-> booked, sent |-> order, placed |-> TRUE]

\* BaseStrategy.execute_sell(symbol, q): as execute_buy.  A strategy with a
\* fee manager first rounds q against its tracked holding.  The price is
\* fetched again after place_order; a failure of that fetch leaves the method
\* with None after the order was placed.
execute_sell(st, q, env) ==
    LET held == st.positions
        qty == IF st.fee_manager
               THEN round_quantity(q, LiveRules, env.filtersRound, TRUE, held, TRUE)
               ELSE q
        order == [side |-> "SELL", quantity |-> qty, price |-> env.price]
        nothing == [trade |-> FALSE, st |-> st, sent |-> NoOrder, placed |-> FALSE]
    IN  IF env.fail = "price" THEN nothing
        ELSE IF st.fee_manager
                /\ ~validate_order_parameters(qty, env.price, LiveRules,
                                              env.filtersValidate)
        THEN nothing
        ELSE IF held < qty THEN nothing
        ELSE IF env.fail = "place"
        THEN [trade |-> FALSE, st |-> st, sent |-> order, placed |-> FALSE]
        ELSE IF env.fail = "price2"
        THEN [trade |-> FALSE, st |-> st, sent |-> order, placed |-> TRUE]
        ELSE [trade |-> TRUE,
              st |-> [st EXCEPT !.trades = Append(@, Trade(order)),
                                !.positions = held - qty],
              sent |-> order, placed |-> TRUE]

\* BaseStrategy.has_position: a crypto holding above 0.
has_position(st) == st.positions > 0

-----------------------------------------------------------------------------
(* TradingBot (src/src/strategies/trading_bot.py): configuration, state.   *)

MinutesPerDay == 1440

\* The loop sleeps 30 s (60 s at the daily limit); the model follows the bot
\* at iterations TickStep minutes apart.
TickStep == 45

\* The bot is started one step before midnight: its second iteration falls on
\* the next day, a third on the same day as the second.
StartTimes == {MinutesPerDay - TickStep}

\* The Config values the bot reads.  Mongo logging is on or off.
Configs ==
    [enable_mongo_logging : BOOLEAN,
     min_holding_time_minutes : {30},
     max_position_age_hours : {1},
     min_profit_percentage : {2},
     stop_loss_percentage : {2},
     max_daily_trades : {2}]

\* The position store behind MongoService: "src" is the MongoService of
\* src/src/utils/mongo_service.py, which has no get_current_position,
\* store_position or clear_position (each call raises AttributeError);
\* "spec" is a store with the Load/Save/Clear interface of the specification.
PositionStores == {"src", "spec"}

\* Position.from_dict of a stored snapshot: buy_value is recomputed, fees_paid
\* is restored.
FromDictWithoutFees(quantity, buy_price, buy_time, fees_paid) ==
    NewPosition(quantity, buy_price, buy_time)

from_dict(quantity, buy_price, buy_time, fees_paid) ==
    [NewPosition(quantity, buy_price, buy_time) EXCEPT !.fees_paid = fees_paid]

\* What Load can return at startup: nothing, or the snapshot of a position of
\* 4 units bought at 10 (fee 0.04) at startup time or one step before it.
RecoveredPositions(store, start) ==
    IF store = "spec"
    THEN {NoPosition} \cup {from_dict(4, 10, t, 40) : t \in {start - TickStep, start}}
    ELSE {NoPosition}

\* TradingBot.__init__ followed by _recover_position.  counters tells whether
\* total_pnl .. combined_signals exist: the early return for disabled Mongo
\* logging leaves _recover_position before it creates them.
InitBots ==
    UNION { UNION { { [config |-> c, store |-> s, start |-> t, now |-> t,
                       pc |-> "start", counters |-> c.enable_mongo_logging,
                       daily_trades |-> 0, last_trade_date |-> -1,
                       total_trades |-> 0, current_position |-> p] :
                        p \in RecoveredPositions(s, t) } :
                    s \in (IF c.enable_mongo_logging THEN PositionStores
                           ELSE {"src"}) } :
            c \in Configs, t \in StartTimes }

\* What get_balance('BTC') returns to sync_positions_with_wallet.
WalletBTC == {0, 4, 6}

\* BaseStrategy.__init__: no trades, and the holding that the wallet sync of
\* the constructor found (none when that sync failed).
InitStrategy(fee_manager, btc_balance) ==
    [fee_manager |-> fee_manager, positions |-> btc_balance, trades |-> <<>>]

\* What one iteration records about itself.
NoTick ==
    [limited |-> FALSE, fetched |-> FALSE, price |-> 0,
     evaluated |-> FALSE, has_position |-> FALSE,
     sma_sell |-> FALSE, rsi_sell |-> FALSE, strength |-> "NONE",
     buy_attempted |-> FALSE, buy_sized |-> 0, buy_called |-> FALSE,
     buy_sent |-> NoOrder,
     buy_placed |-> FALSE, buy_ok |-> FALSE,
     sell_evaluated |-> FALSE, position |-> NoPosition, at |-> 0,
     sell_signal |-> FALSE, consulted |-> FALSE,
     sell_attempted |-> FALSE, held |-> 0, sell_called |-> FALSE,
     sell_sent |-> NoOrder, sell_placed |-> FALSE, sell_ok |-> FALSE,
     cleared |-> FALSE]

-----------------------------------------------------------------------------
(* TradingBot: the order handlers.                                         *)

\* default_fees['taker'] = 0.001, in thousandths.
TakerFeePerMille == 1

\* estimated_fee = quantity * price * taker_fee_rate, in thousandths.
EstimatedFee(q, price) == q * price * TakerFeePerMille

\* The position tracking of a buy that re-prices the tracked position.
TrackBuyRepriced(pos, q, price, now) ==
    IF pos.open
    THEN [pos EXCEPT !.quantity = @ + q, !.fees_paid = @ + EstimatedFee(q, price),
                     !.buy_value = @ + q * price]
    ELSE [NewPosition(q, price, now) EXCEPT !.fees_paid = EstimatedFee(q, price)]

\* The position tracking of a successful buy: a tracked position grows by the
\* quantity and the fee (entry price, entry time and buy_value stay); without
\* one a new Position is created at the market price.
TrackBuy(pos, q, price, now) ==
    IF pos.open
    THEN [pos EXCEPT !.quantity = @ + q, !.fees_paid = @ + EstimatedFee(q, price)]
    ELSE [NewPosition(q, price, now) EXCEPT !.fees_paid = EstimatedFee(q, price)]

\* daily_trades += 1; total_trades += 1.  Without the counters the second
\* statement raises after the first took effect.
CountTrade(b) ==
    IF b.counters
    THEN [b EXCEPT !.daily_trades = @ + 1, !.total_trades = @ + 1]
    ELSE [b EXCEPT !.daily_trades = @ + 1]

\* The store call of a handler raises: Mongo logging is on and the store is
\* the MongoService of the source.
StoreRaises(b) == b.config.enable_mongo_logging /\ b.store = "src"

\* TradingBot._execute_enhanced_buy_signal: [ok, bot, st, called, sent, placed].
\* q is the result of calculate_position_size, walletOk tells whether the two
\* get_balance calls return, env is the outside world of execute_buy.
_execute_enhanced_buy_signal(b, st, price, q, walletOk, env) ==
    LET no == [ok |-> FALSE, bot |-> b, st |-> st, called |-> FALSE,
               sent |-> NoOrder, placed |-> FALSE]
        r == execute_buy(st, q, env)
        tracked == [b EXCEPT !.current_position = TrackBuy(@, q, price, b.now)]
    IN  IF q <= 0 THEN no
        ELSE IF ~walletOk THEN no
        ELSE IF ~st.fee_manager THEN no
        ELSE IF ~r.trade
        THEN [no EXCEPT !.st = r.st, !.called = TRUE, !.sent = r.sent,
                        !.placed = r.placed]
        ELSE [ok |-> ~StoreRaises(b) /\ b.counters,
              bot |-> IF StoreRaises(b) THEN tracked ELSE CountTrade(tracked),
              st |-> r.st, called |-> TRUE, sent |-> r.sent, placed |-> r.placed]

\* TradingBot._execute_enhanced_sell_signal: as the buy handler, with cleared
\* telling whether current_position was set to None.
_execute_enhanced_sell_signal(b, st, env) ==
    LET no == [ok |-> FALSE, bot |-> b, st |-> st, called |-> FALSE,
               sent |-> NoOrder, placed |-> FALSE, cleared |-> FALSE]
        current_position == st.positions
        r == execute_sell(st, current_position, env)
        closed == [b EXCEPT !.current_position = NoPosition]
    IN  IF current_position <= 0 THEN no
        ELSE IF ~st.fee_manager THEN no
        ELSE IF ~r.trade
        THEN [no EXCEPT !.st = r.st, !.called = TRUE, !.sent = r.sent,
                        !.placed = r.placed]
        ELSE IF b.current_position.open
        THEN [ok |-> ~StoreRaises(b) /\ b.counters,
              bot |-> IF StoreRaises(b) THEN closed ELSE CountTrade(closed),
              st |-> r.st, called |-> TRUE, sent |-> r.sent, placed |-> r.placed,
              cleared |-> TRUE]
        ELSE [ok |-> b.counters, bot |-> CountTrade(b),
              st |-> r.st, called |-> TRUE, sent |-> r.sent, placed |-> r.placed,
              cleared |-> FALSE]

-----------------------------------------------------------------------------
(* TradingBot.run: one iteration, in three steps.                          *)

\* What calculate_position_size returns at a price above 0.
SizedQuantities == {0, 4, 6}

\* TradingBot._update_daily_reset.
_update_daily_reset(b) ==
    LET today == b.now \div MinutesPerDay
    IN  IF b.last_trade_date # today
        THEN [b EXCEPT !.daily_trades = 0, !.last_trade_date = today]
        ELSE b

\* The get_market_data of the strategies the bot holds: a failed fetch is
\* caught and answered with a MarketData of price 0.
get_market_data(fetched, price) == IF fetched THEN price ELSE 0

\* BaseStrategy.sync_positions_with_wallet: the tracked holding becomes the
\* wallet balance; a failed balance fetch leaves it.
sync_positions_with_wallet(st, walletOk, btc_balance) ==
    IF walletOk THEN [st EXCEPT !.positions = btc_balance] ELSE st

\* The ticker price execute_buy and execute_sell fetch within an iteration:
\* the price the iteration's market data carries, or any price when that
\* fetch had failed.
TickerPrices(t) == IF t.fetched THEN {t.price} ELSE Prices

\* The head of the loop body: daily reset, daily limit, market data, wallet
\* sync.  At the limit the iteration sleeps and is over.
TickStart ==
    /\ bot.pc = "start"
    /\ bot.now - bot.start < MaxLiveTicks * TickStep
    /\ Len(strategy.trades) < MaxTrades
    /\ \E fetched \in BOOLEAN, price \in Prices, walletOk \in BOOLEAN,
          btc_balance \in WalletBTC :
        LET b == _update_daily_reset(bot)
            limited == b.daily_trades >= b.config.max_daily_trades
        IN  /\ bot' = IF limited THEN [b EXCEPT !.now = @ + TickStep]
                      ELSE [b EXCEPT !.pc = "signals"]
            /\ strategy' = IF limited THEN strategy
                           ELSE sync_positions_with_wallet(strategy, walletOk,
                                                           btc_balance)
            /\ tick' = IF limited THEN [NoTick EXCEPT !.limited = TRUE]
                       ELSE [NoTick EXCEPT !.fetched = fetched,
                                           !.price = get_market_data(fetched, price)]
    /\ UNCHANGED <<call, rq, bt, sma_strategy, rsi_indicator,
                 rsi_volume_strategy>>

\* _process_enhanced_trading_signals up to the buy: the four signals, the
\* holding, the buy tier, the buy policy and the buy handler.
TickBuy ==
    /\ bot.pc = "signals"
    /\ \E sma_buy \in BOOLEAN, sma_sell \in BOOLEAN, rsi_buy \in BOOLEAN,
          rsi_sell \in BOOLEAN, rsi \in RsiStates :
        LET holding == has_position(strategy)
            strength == _evaluate_buy_signals(sma_buy, rsi_buy, rsi, bot.counters)
            seen == [tick EXCEPT !.evaluated = TRUE, !.has_position = holding,
                                 !.sma_sell = sma_sell, !.rsi_sell = rsi_sell,
                                 !.strength = strength]
        IN  IF ShouldBuy(strength, holding)
            THEN \E q \in (IF tick.price = 0 THEN {0} ELSE SizedQuantities),
                    walletOk \in BOOLEAN, env \in BuyEnvs(TickerPrices(tick)) :
                    LET r == _execute_enhanced_buy_signal(bot, strategy, tick.price,
                                                          q, walletOk, env)
                    IN  /\ bot' = [r.bot EXCEPT !.pc = "sell"]
                        /\ strategy' = r.st
                        /\ tick' = [seen EXCEPT !.buy_attempted = TRUE,
                                                !.buy_sized = q,
                                                !.buy_called = r.called,
                                                !.buy_sent = r.sent,
                                                !.buy_placed = r.placed,
                                                !.buy_ok = r.ok]
            ELSE /\ bot' = [bot EXCEPT !.pc = "sell"]
                 /\ strategy' = strategy
                 /\ tick' = seen
    /\ UNCHANGED <<call, rq, bt, sma_strategy, rsi_indicator,
                 rsi_volume_strategy>>

\* The rest of _process_enhanced_trading_signals, with the holding seen
\* before the buy: the sell evaluation and the sell handler; then the sleep.
TickSell ==
    /\ bot.pc = "sell"
    /\ \E rsi \in RsiStates :
        LET e == _evaluate_sell_signals(bot.current_position, tick.price, bot.now,
                                        tick.sma_sell, tick.rsi_sell, rsi,
                                        bot.config, bot.counters)
            seen == [tick EXCEPT !.sell_evaluated = TRUE,
                                 !.position = bot.current_position,
                                 !.at = bot.now, !.sell_signal = e.sell,
                                 !.consulted = e.consulted]
        IN  IF ~tick.has_position
            THEN /\ bot' = [bot EXCEPT !.pc = "start", !.now = @ + TickStep]
                 /\ strategy' = strategy
                 /\ tick' = tick
            ELSE IF ~e.sell
            THEN /\ bot' = [bot EXCEPT !.pc = "start", !.now = @ + TickStep]
                 /\ strategy' = strategy
                 /\ tick' = seen
            ELSE \E env \in SellEnvs(TickerPrices(tick)) :
                    LET r == _execute_enhanced_sell_signal(bot, strategy, env)
                    IN  /\ bot' = [r.bot EXCEPT !.pc = "start", !.now = @ + TickStep]
                        /\ strategy' = r.st
                        /\ tick' = [seen EXCEPT !.sell_attempted = TRUE,
                                                !.held = strategy.positions,
                                                !.sell_called = r.called,
                                                !.sell_sent = r.sent,
                                                !.sell_placed = r.placed,
                                                !.sell_ok = r.ok,
                                                !.cleared = r.cleared]
    /\ UNCHANGED <<call, rq, bt, sma_strategy, rsi_indicator,
                 rsi_volume_strategy>>

-----------------------------------------------------------------------------
(* BacktestEngine (src/src/backtesting/backtest_engine.py).                *)

BacktestPrices == {1, 2, 3}

\* What the strategy answers on one historical tick: should_buy is true and
\* calculate_position_size returns the quantity, should_sell is true,
\* neither, or one of its methods raises.
\* should_sell is what should_sell(market_data) answers, or would answer on
\* a tick where should_buy is true and the elif never asks.
BacktestSignals ==
    [kind : {"buy"}, quantity : {0, 2, 5}, should_sell : BOOLEAN]
        \cup [kind : {"sell"}, quantity : {0}, should_sell : {TRUE}]
        \cup [kind : {"none", "raise"}, quantity : {0}, should_sell : {FALSE}]

NoBacktest == [pc |-> "none"]

NoResult == [total_trades |-> 0, winning_trades |-> 0, losing_trades |-> 0,
             win_rate |-> Fraction(0, 1), total_pnl |-> 0,
             total_return |-> Fraction(0, 1), raised |-> FALSE]

\* BacktestEngine.__init__ and the reset at the head of run_backtest, followed
\* by the first equity_curve entry, stamped historical_data[0].timestamp (tick
\* i is stamped i).  symbol_matches tells whether the ticks of
\* historical_data carry the symbol run_backtest was called with.
NewBacktest(initial_balance, symbol_matches) ==
    [pc |-> "run", initial_balance |-> initial_balance,
     symbol_matches |-> symbol_matches,
     current_balance |-> initial_balance, positions |-> 0, trades |-> <<>>,
     equity_curve |-> <<[timestamp |-> 1, equity |-> initial_balance]>>,
     peak_balance |-> initial_balance,
     max_drawdown |-> [num |-> 0, den |-> 1], returns |-> <<>>,
     data |-> <<>>, final_balance |-> 0, result |-> NoResult]

\* _execute_buy_signal without the check for an existing position.
ExecuteBuySignalAgain(e, price, quantity) ==
    IF quantity <= 0 THEN e
    ELSE IF e.current_balance < quantity * price THEN e
    ELSE [e EXCEPT !.current_balance = @ - quantity * price,
                   !.positions = quantity,
                   !.trades = Append(@, [side |-> "BUY", quantity |-> quantity,
                                         price |-> price])]

\* _execute_buy_signal without the check of the balance.
ExecuteBuySignalOnCredit(e, price, quantity) ==
    IF quantity <= 0 THEN e
    ELSE IF e.positions > 0 THEN e
    ELSE [e EXCEPT !.current_balance = @ - quantity * price,
                   !.positions = quantity,
                   !.trades = Append(@, [side |-> "BUY", quantity |-> quantity,
                                         price |-> price])]

\* BacktestEngine._execute_buy_signal.
_execute_buy_signal(e, price, quantity) ==
    IF quantity <= 0 THEN e
    ELSE IF e.positions > 0 THEN e
    ELSE IF e.current_balance < quantity * price THEN e
    ELSE [e EXCEPT !.current_balance = @ - quantity * price,
                   !.positions = quantity,
                   !.trades = Append(@, [side |-> "BUY", quantity |-> quantity,
                                         price |-> price])]

\* _calculate_trade_pnl that books the proceeds of the sell as its P&L.
TradePnlProceeds(trades, sell_trade) == sell_trade.quantity * sell_trade.price

\* _calculate_trade_pnl against the first BUY trade of the run.
TradePnlFirstBuy(trades, sell_trade) ==
    LET buys == {i \in 1..Len(trades) : trades[i].side = "BUY"}
    IN  IF buys = {} THEN 0
        ELSE LET buy_trade == trades[CHOOSE i \in buys : \A j \in buys : i <= j]
             IN  sell_trade.quantity * sell_trade.price
                 - buy_trade.quantity * buy_trade.price

\* BacktestEngine._calculate_trade_pnl: against the most recent BUY trade.
_calculate_trade_pnl(trades, sell_trade) ==
    LET buys == {i \in 1..Len(trades) : trades[i].side = "BUY"}
    IN  IF buys = {} THEN 0
        ELSE LET buy_trade == trades[CHOOSE i \in buys : \A j \in buys : j <= i]
             IN  sell_trade.quantity * sell_trade.price
                 - buy_trade.quantity * buy_trade.price

\* BacktestEngine._execute_sell_signal.
_execute_sell_signal(e, price) ==
    IF e.positions <= 0 THEN e
    ELSE LET trade == [side |-> "SELL", quantity |-> e.positions, price |-> price]
             trades == Append(e.trades, trade)
         IN  [e EXCEPT !.current_balance = @ + e.positions * price,
                       !.positions = 0,
                       !.trades = trades,
                       !.returns = Append(@, _calculate_trade_pnl(trades, trade))]

\* BacktestEngine._process_signals: buy, else sell; an exception is caught.
_process_signals(e, price, signal) ==
    IF signal.kind = "buy" THEN _execute_buy_signal(e, price, signal.quantity)
    ELSE IF signal.kind = "sell" THEN _execute_sell_signal(e, price)
    ELSE e

\* _calculate_current_equity that never values the holding.
CurrentEquityCashOnly(e, price) == e.current_balance

\* BacktestEngine._calculate_current_equity: the holding is valued at the
\* tick's price only when the tick carries the run's symbol and a price > 0.
_calculate_current_equity(e, price) ==
    IF e.positions > 0 /\ e.symbol_matches /\ price > 0
    THEN e.current_balance + e.positions * price
    ELSE e.current_balance

\* drawdown > self.max_drawdown, on the fractions.
DrawdownAbove(peak, equity, m) == (peak - equity) * m.den > m.num * peak

\* BacktestEngine._update_drawdown.
_update_drawdown(e, current_equity) ==
    LET peak == Max(e.peak_balance, current_equity)
    IN  [e EXCEPT !.peak_balance = peak,
                  !.max_drawdown =
                      IF DrawdownAbove(peak, current_equity, @)
                      THEN [num |-> peak - current_equity, den |-> peak]
                      ELSE @]

\* BacktestEngine._calculate_results: the counts, win_rate (0 without round
\* trips), total_pnl and total_return; the division by initial_balance raises at 0.
_calculate_results(e, final_balance) ==
    LET winning_trades == Cardinality({i \in 1..Len(e.returns) : e.returns[i] > 0})
        losing_trades == Cardinality({i \in 1..Len(e.returns) : e.returns[i] < 0})
        total_trades == Len(e.returns)
    IN  [total_trades |-> total_trades,
         winning_trades |-> winning_trades,
         losing_trades |-> losing_trades,
         win_rate |-> IF total_trades > 0
                      THEN Fraction(winning_trades * 100, total_trades)
                      ELSE Fraction(0, 1),
         total_pnl |-> Sum(e.returns),
         total_return |-> IF e.initial_balance = 0 THEN Fraction(0, 1)
                          ELSE Fraction((final_balance - e.initial_balance) * 100,
                                        e.initial_balance),
         raised |-> e.initial_balance = 0]

\* run_backtest is called with a positive initial balance.
BacktestStart ==
    /\ bt.pc = "none"
    /\ \E symbol_matches \in BOOLEAN : bt' = NewBacktest(10, symbol_matches)
    /\ UNCHANGED <<bot, strategy, tick, call, rq, sma_strategy, rsi_indicator,
                 rsi_volume_strategy>>

\* One pass of the loop over historical_data.
BacktestTick ==
    /\ bt.pc = "run"
    /\ Len(bt.data) < MaxTicks
    /\ \E price \in BacktestPrices, signal \in BacktestSignals :
        LET e == _process_signals(bt, price, signal)
            current_equity == _calculate_current_equity(e, price)
            c == [e EXCEPT !.equity_curve =
                               Append(@, [timestamp |-> Len(e.data) + 1,
                                          equity |-> current_equity]),
                           !.data = Append(@, [price |-> price, signal |-> signal])]
        IN  bt' = _update_drawdown(c, current_equity)
    /\ UNCHANGED <<bot, strategy, tick, call, rq, sma_strategy, rsi_indicator,
                 rsi_volume_strategy>>

\* The end of run_backtest: the final balance is the equity at the last tick.
BacktestFinish ==
    /\ bt.pc = "run"
    /\ Len(bt.data) >= 1
    /\ LET final_balance ==
               _calculate_current_equity(bt, bt.data[Len(bt.data)].price)
       IN  bt' = [bt EXCEPT !.pc = "done",
                            !.final_balance = final_balance,
                            !.result = _calculate_results(bt, final_balance)]
    /\ UNCHANGED <<bot, strategy, tick, call, rq, sma_strategy, rsi_indicator,
                 rsi_volume_strategy>>

-----------------------------------------------------------------------------
(* SimpleMovingAverageStrategy                                             *)
(* (src/src/strategies/simple_moving_average.py) replayed by run_backtest. *)

MaxCrossoverTicks == 6  \* length of the series replayed through the strategy

StopLossPercentage == 2

TakeProfitPercentage == 5

StartPrice == 3

\* (short_period, long_period) as passed to the constructor.
CrossoverPeriods == {<<1, 2>>, <<2, 3>>, <<3, 5>>, <<2, 2>>, <<3, 2>>}

CrossoverQuantities == {0, 1}

NoStrategy == [pc |-> "none"]

\* What get_klines hands to _initialize_price_history: nothing (the call
\* raised), or long_period + 5 falling closes.
Klines(long_period) ==
    {<<>>, [i \in 1..(long_period + 5) |-> StartPrice + long_period + 6 - i]}

\* SimpleMovingAverageStrategy.__init__ with _initialize_price_history.
NewStrategy(short_period, long_period, klines) ==
    [pc |-> "run", short_period |-> short_period, long_period |-> long_period,
     price_history |-> klines, trades |-> <<>>, fresh |-> klines = <<>>,
     last |-> [should_buy |-> FALSE, death_cross |-> FALSE, should_sell |-> FALSE]]

\* The calls of _calculate_sma that leave through one of its `return 0.0`.
ReturnsSentinel(price_history, period, offset) ==
    \/ Len(price_history) < period
    \/ Len(price_history) - period + offset < 0
    \/ Len(price_history) + offset <= 0

\* SimpleMovingAverageStrategy._calculate_sma.
_calculate_sma(price_history, period, offset) ==
    LET start_idx == Len(price_history) - period + offset
        end_idx == Len(price_history) + offset
    IN  IF Len(price_history) < period THEN Fraction(0, 1)
        ELSE IF start_idx < 0 \/ end_idx <= 0 THEN Fraction(0, 1)
        ELSE Fraction(Sum(SubSeq(price_history, start_idx + 1, end_idx)),
                      end_idx - start_idx)

\* should_buy without the comparison of the previous tick's averages.
ShouldBuyNoPrevious(price_history, short_period, long_period) ==
    LET h == LastN(price_history, long_period + 1)
    IN  IF Len(h) < long_period THEN FALSE
        ELSE /\ Len(h) >= long_period + 1
             /\ Less(_calculate_sma(h, long_period, 0),
                     _calculate_sma(h, short_period, 0))

\* SimpleMovingAverageStrategy.should_buy: the golden cross.
should_buy(price_history, short_period, long_period) ==
    LET h == LastN(price_history, long_period + 1)
        short_sma == _calculate_sma(h, short_period, 0)
        long_sma == _calculate_sma(h, long_period, 0)
        prev_short_sma == _calculate_sma(h, short_period, -1)
        prev_long_sma == _calculate_sma(h, long_period, -1)
    IN  IF Len(h) < long_period THEN FALSE
        ELSE /\ Len(h) >= long_period + 1
             /\ LessEq(prev_short_sma, prev_long_sma)
             /\ Less(long_sma, short_sma)

\* The death cross of should_sell.
DeathCross(price_history, short_period, long_period) ==
    LET h == LastN(price_history, long_period + 1)
        short_sma == _calculate_sma(h, short_period, 0)
        long_sma == _calculate_sma(h, long_period, 0)
        prev_short_sma == _calculate_sma(h, short_period, -1)
        prev_long_sma == _calculate_sma(h, long_period, -1)
    IN  /\ Len(h) >= long_period + 1
        /\ LessEq(prev_long_sma, prev_short_sma)
        /\ Less(short_sma, long_sma)

\* SimpleMovingAverageStrategy._check_take_profit_stop_loss: against the
\* price of the strategy's own last BUY trade.
_check_take_profit_stop_loss(trades, current_price) ==
    LET buys == {i \in 1..Len(trades) : trades[i].side = "BUY"}
    IN  IF buys = {} THEN FALSE
        ELSE LET entry_price == trades[CHOOSE i \in buys : \A j \in buys : j <= i].price
                 change == Fraction((current_price - entry_price) * 100, entry_price)
             IN  \/ LessEq(change, Fraction(-StopLossPercentage, 1))
                 \/ LessEq(Fraction(TakeProfitPercentage, 1), change)

\* SimpleMovingAverageStrategy.should_sell.
should_sell(st, current_price) ==
    IF Len(LastN(st.price_history, st.long_period + 1)) < st.long_period THEN FALSE
    ELSE \/ DeathCross(st.price_history, st.short_period, st.long_period)
         \/ _check_take_profit_stop_loss(st.trades, current_price)

\* BacktestEngine._update_strategy_data.
_update_strategy_data(st, price) ==
    [st EXCEPT !.price_history = LastN(Append(@, price), st.long_period + 1)]

\* The series starts at StartPrice and moves by at most one per tick.
NextPrices(data) ==
    IF data = <<>> THEN {StartPrice}
    ELSE {data[Len(data)].price + d : d \in {-1, 0, 1}} \ {0}

\* backtest.py: the strategy is built, then run_backtest resets the engine.
CrossoverStart ==
    /\ bt.pc = "none"
    /\ \E periods \in CrossoverPeriods, symbol_matches \in BOOLEAN :
        \E klines \in Klines(periods[2]) :
            /\ bt' = NewBacktest(10, symbol_matches)
            /\ sma_strategy' = NewStrategy(periods[1], periods[2], klines)
    /\ UNCHANGED <<bot, strategy, tick, call, rq, rsi_indicator,
                 rsi_volume_strategy>>

\* One pass of the loop of run_backtest with the crossover strategy.
CrossoverTick ==
    /\ bt.pc = "run"
    /\ sma_strategy.pc = "run"
    /\ Len(bt.data) < MaxCrossoverTicks
    /\ \E price \in NextPrices(bt.data) :
        LET st == _update_strategy_data(sma_strategy, price)
            buy == should_buy(st.price_history, st.short_period, st.long_period)
            sell == should_sell(st, price)
        IN  \E quantity \in (IF buy THEN CrossoverQuantities ELSE {0}) :
            LET signal == [kind |-> IF buy THEN "buy"
                                    ELSE IF sell THEN "sell" ELSE "none",
                           quantity |-> quantity, should_sell |-> sell]
                e == _process_signals(bt, price, signal)
                current_equity == _calculate_current_equity(e, price)
                c == [e EXCEPT !.equity_curve =
                                   Append(@, [timestamp |-> Len(e.data) + 1,
                                              equity |-> current_equity]),
                               !.data = Append(@, [price |-> price,
                                                   signal |-> signal])]
            IN  /\ bt' = _update_drawdown(c, current_equity)
                /\ sma_strategy' =
                       [st EXCEPT !.last =
                           [should_buy |-> buy,
                            death_cross |-> DeathCross(st.price_history,
                                                       st.short_period,
                                                       st.long_period),
                            should_sell |-> sell]]
    /\ UNCHANGED <<bot, strategy, tick, call, rq, rsi_indicator,
                 rsi_volume_strategy>>

-----------------------------------------------------------------------------
(* RSIIndicator (src/src/utils/indicators.py).                             *)

MaxRsiPeriod == 3       \* the period ranges over 1..MaxRsiPeriod

MaxRsiPrice == 4        \* prices range over 1..MaxRsiPrice

NoIndicator == [period |-> 0, price_history |-> <<>>]

\* RSIIndicator.__init__.
NewIndicator(period) == [period |-> period, price_history |-> <<>>]

\* RSIIndicator.add_price.
add_price(ind, price) ==
    [ind EXCEPT !.price_history = LastN(Append(@, price), ind.period + 1)]

\* The gains and the losses of calculate_rsi, one entry per price change.
Gains(h) ==
    [i \in 1..(Len(h) - 1) |-> IF h[i + 1] - h[i] > 0 THEN h[i + 1] - h[i] ELSE 0]

Losses(h) ==
    [i \in 1..(Len(h) - 1) |-> IF h[i + 1] - h[i] > 0 THEN 0 ELSE Abs(h[i + 1] - h[i])]

\* calculate_rsi with the two averages exchanged.
CalculateRsiSwapped(ind) ==
    LET gain == Sum(LastN(Gains(ind.price_history), ind.period))
        loss == Sum(LastN(Losses(ind.price_history), ind.period))
    IN  IF Len(ind.price_history) < ind.period + 1 THEN Fraction(50, 1)
        ELSE IF gain = 0 THEN Fraction(100, 1)
        ELSE Fraction(100 * loss, gain + loss)

\* RSIIndicator.calculate_rsi.  With avg_gain = gain/period and avg_loss =
\* loss/period, 100 - 100/(1 + avg_gain/avg_loss) = 100*gain/(gain + loss).
calculate_rsi(ind) ==
    LET gain == Sum(LastN(Gains(ind.price_history), ind.period))
        loss == Sum(LastN(Losses(ind.price_history), ind.period))
    IN  IF Len(ind.price_history) < ind.period + 1 THEN Fraction(50, 1)
        ELSE IF loss = 0 THEN Fraction(100, 1)
        ELSE Fraction(100 * gain, gain + loss)

\* RSIIndicator(period) is built.
IndicatorStart ==
    /\ rsi_indicator = NoIndicator
    /\ \E period \in 1..MaxRsiPeriod : rsi_indicator' = NewIndicator(period)
    /\ UNCHANGED <<bot, strategy, tick, call, rq, bt, sma_strategy,
                 rsi_volume_strategy>>

\* add_price(price) followed by calculate_rsi(); call keeps what it returned.
AddPrice ==
    /\ rsi_indicator # NoIndicator
    /\ \E price \in 1..MaxRsiPrice :
        /\ rsi_indicator' = add_price(rsi_indicator, price)
        /\ call' = [op |-> "calculate_rsi",
                    result |-> calculate_rsi(add_price(rsi_indicator, price))]
    /\ UNCHANGED <<bot, strategy, tick, rq, bt, sma_strategy,
                 rsi_volume_strategy>>

-----------------------------------------------------------------------------
(* RSIVolumeStrategy (src/src/strategies/rsi_volume_strategy.py) and the   *)
(* VolumeIndicator it holds, asked for its signals tick by tick.           *)

MaxOscillatorTicks == 3     \* market ticks handed to the strategy

MaxEvaluations == 3         \* should_buy / should_sell calls followed per tick

QuoteVolumes == {1, 2, 3}

\* (rsi_period, volume_period) as passed to the constructor.
OscillatorPeriods == {<<1, 1>>, <<2, 2>>}

NoOscillator == [pc |-> "none"]

\* VolumeIndicator.__init__.
NewVolumeIndicator(period) == [period |-> period, volume_history |-> <<>>]

\* VolumeIndicator.add_volume.
add_volume(ind, volume) ==
    [ind EXCEPT !.volume_history = LastN(Append(@, volume), ind.period)]

\* VolumeIndicator.calculate_volume_sma: 0 until the window is full.
calculate_volume_sma(ind) ==
    IF Len(ind.volume_history) < ind.period THEN Fraction(0, 1)
    ELSE Fraction(Sum(ind.volume_history), Len(ind.volume_history))

\* VolumeIndicator.is_volume_above_average with the default multiplier 1.0.
is_volume_above_average(ind, current_volume) ==
    LET avg_volume == calculate_volume_sma(ind)
    IN  IF avg_volume.num = 0 THEN TRUE
        ELSE Less(avg_volume, Fraction(current_volume, 1))

\* RSIVolumeStrategy.__init__ when _initialize_history gets no klines: the
\* windows are built up from the live data.  added counts the add_price /
\* add_volume calls made with the current tick, results keeps what each
\* evaluation on the current tick returned.
NewOscillator(rsi_period, volume_period) ==
    [pc |-> "run", rsi_indicator |-> NewIndicator(rsi_period),
     volume_indicator |-> NewVolumeIndicator(volume_period),
     ticks |-> 0, market_data |-> [price |-> 0, quote_volume |-> 0],
     added |-> 0, results |-> <<>>]

\* "Update indicators with new data": the two statements at the head of
\* should_buy, of should_sell and of TradingBot._update_strategies.
UpdateIndicators(st, market_data) ==
    [st EXCEPT !.rsi_indicator = add_price(@, market_data.price),
               !.volume_indicator = add_volume(@, market_data.quote_volume),
               !.added = @ + 1]

\* RSIVolumeStrategy.should_buy: [st, result].
rsi_should_buy(st, market_data) ==
    LET u == UpdateIndicators(st, market_data)
        rsi_condition == Less(calculate_rsi(u.rsi_indicator), Fraction(70, 1))
        volume_condition == is_volume_above_average(u.volume_indicator,
                                                    market_data.quote_volume)
    IN  [st |-> u, result |-> rsi_condition /\ volume_condition]

\* RSIVolumeStrategy.should_sell: [st, result].  self.trades is empty (the
\* bot trades through the crossover strategy, a backtest keeps its own
\* trades), so _check_take_profit_stop_loss answers False.
rsi_should_sell(st, market_data) ==
    LET u == UpdateIndicators(st, market_data)
        rsi_condition == Less(Fraction(30, 1), calculate_rsi(u.rsi_indicator))
        volume_condition == is_volume_above_average(u.volume_indicator,
                                                    market_data.quote_volume)
    IN  [st |-> u, result |-> rsi_condition /\ volume_condition]

\* RSIVolumeStrategy(config, binance_client, rsi_period, volume_period).
OscillatorStart ==
    /\ rsi_volume_strategy.pc = "none"
    /\ \E p \in OscillatorPeriods :
        rsi_volume_strategy' = NewOscillator(p[1], p[2])
    /\ UNCHANGED <<bot, strategy, tick, call, rq, bt, sma_strategy, rsi_indicator>>

\* A new market tick reaches the strategy: in the live loop through
\* TradingBot._update_strategies, which adds its price and quote volume; in
\* a backtest through BacktestEngine._update_strategy_data, which adds
\* nothing for a strategy without price_history.
OscillatorTick ==
    /\ rsi_volume_strategy.pc = "run"
    /\ rsi_volume_strategy.ticks < MaxOscillatorTicks
    /\ \E price \in 1..MaxRsiPrice, quote_volume \in QuoteVolumes, live \in BOOLEAN :
        LET market_data == [price |-> price, quote_volume |-> quote_volume]
            fresh == [rsi_volume_strategy EXCEPT !.ticks = @ + 1,
                                                 !.market_data = market_data,
                                                 !.added = 0, !.results = <<>>]
        IN  rsi_volume_strategy' =
                IF live THEN UpdateIndicators(fresh, market_data) ELSE fresh
    /\ UNCHANGED <<bot, strategy, tick, call, rq, bt, sma_strategy, rsi_indicator>>

\* should_buy(market_data) is called with the current tick.
EvaluateShouldBuy ==
    /\ rsi_volume_strategy.pc = "run"
    /\ rsi_volume_strategy.ticks >= 1
    /\ Len(rsi_volume_strategy.results) < MaxEvaluations
    /\ LET r == rsi_should_buy(rsi_volume_strategy, rsi_volume_strategy.market_data)
       IN  rsi_volume_strategy' =
               [r.st EXCEPT !.results =
                   Append(@, [op |-> "should_buy", result |-> r.result])]
    /\ UNCHANGED <<bot, strategy, tick, call, rq, bt, sma_strategy, rsi_indicator>>

\* should_sell(market_data) is called with the current tick.
EvaluateShouldSell ==
    /\ rsi_volume_strategy.pc = "run"
    /\ rsi_volume_strategy.ticks >= 1
    /\ Len(rsi_volume_strategy.results) < MaxEvaluations
    /\ LET r == rsi_should_sell(rsi_volume_strategy, rsi_volume_strategy.market_data)
       IN  rsi_volume_strategy' =
               [r.st EXCEPT !.results =
                   Append(@, [op |-> "should_sell", result |-> r.result])]
    /\ UNCHANGED <<bot, strategy, tick, call, rq, bt, sma_strategy, rsi_indicator>>

-----------------------------------------------------------------------------
(* Position (src/src/models/position.py) called on its own.                *)

Symbols == {"BTCBRL", "BTCUSDT"}

\* datetime.isoformat and datetime.fromisoformat, on whole minutes.
isoformat(t) ==
    [day |-> t \div MinutesPerDay,
     hour |-> (t % MinutesPerDay) \div MinutesPerHour,
     minute |-> t % MinutesPerHour]

fromisoformat(iso) ==
    iso.day * MinutesPerDay + iso.hour * MinutesPerHour + iso.minute

\* Position.to_dict (created_at and updated_at, two clock readings, are left
\* out; from_dict does not read them).
to_dict(symbol, pos) ==
    [symbol |-> symbol, quantity |-> pos.quantity, buy_price |-> pos.buy_price,
     buy_time |-> isoformat(pos.buy_time), buy_value |-> pos.buy_value,
     fees_paid |-> pos.fees_paid]

\* Position.from_dict of a dictionary written by to_dict.
PositionFromDict(data) ==
    [symbol |-> data.symbol,
     position |-> from_dict(data.quantity, data.buy_price,
                            fromisoformat(data.buy_time), data.fees_paid)]

\* Positions as the bot builds them: a new Position, one with the buy fee
\* booked, and one that a second buy was added to.
BuiltPositions ==
    UNION {{NewPosition(q, price, t),
            TrackBuy(NoPosition, q, price, t),
            TrackBuy(TrackBuy(NoPosition, q, price, t), q, price + 1, t + TickStep)} :
               q \in {1, 4}, price \in Prices, t \in {0, MinutesPerDay - 1,
                                                      MinutesPerDay + MinutesPerHour}}

\* calculate_profit_percentage(current_price), with the default
\* sell_fee_rate or with sell_fee_rate = 0.
ProfitCall ==
    /\ call.op = "none"
    /\ \E pos \in BuiltPositions, current_price \in Prices,
          sell_fee_rate \in {0, SellFeePerMille} :
        call' = [op |-> "calculate_profit_percentage", position |-> pos,
                 current_price |-> current_price, sell_fee_rate |-> sell_fee_rate,
                 result |-> calculate_profit_percentage(pos, current_price,
                                                        sell_fee_rate)]
    /\ UNCHANGED <<bot, strategy, tick, rq, bt, sma_strategy, rsi_indicator,
                 rsi_volume_strategy>>

\* Position.from_dict(p.to_dict()).
RoundTripCall ==
    /\ call.op = "none"
    /\ \E pos \in BuiltPositions, symbol \in Symbols :
        call' = [op |-> "from_dict", symbol |-> symbol, position |-> pos,
                 result |-> PositionFromDict(to_dict(symbol, pos))]
    /\ UNCHANGED <<bot, strategy, tick, rq, bt, sma_strategy, rsi_indicator,
                 rsi_volume_strategy>>

-----------------------------------------------------------------------------
(* RSIVolumeStrategy.calculate_position_size                               *)
(* (src/src/strategies/rsi_volume_strategy.py).                            *)

MinTradeAmount == 50

FeeBufferPerMille == 2

\* trade_amount < 50 without the comparison.
NeverBelowFloor(amount) == FALSE

\* trade_amount < 50.
BelowFloor(amount) == Less(amount, Fraction(MinTradeAmount, 1))

\* The include_fees block without the netting of the gross amount.
FeeAdjustedGross(trade_amount, brl_balance, taker_fee_rate) ==
    LET gross_amount == Times(trade_amount, Fraction(1000, 1000 - taker_fee_rate))
        total_required == Times(gross_amount, Fraction(1000 + FeeBufferPerMille, 1000))
        shortfall == Less(Fraction(brl_balance, 1), total_required)
        available_for_trade ==
            Reduced(Fraction(brl_balance * (1000 - taker_fee_rate - FeeBufferPerMille),
                             1000))
    IN  [total_required |-> total_required, shortfall |-> shortfall,
         abort |-> shortfall /\ BelowFloor(available_for_trade),
         trade_amount |-> IF shortfall THEN available_for_trade ELSE gross_amount]

\* The include_fees block: gross amount, buffer, fallback to the available
\* balance, or the gross amount net of the fee.  Rates are in thousandths.
FeeAdjusted(trade_amount, brl_balance, taker_fee_rate) ==
    LET gross_amount == Times(trade_amount, Fraction(1000, 1000 - taker_fee_rate))
        total_required == Times(gross_amount, Fraction(1000 + FeeBufferPerMille, 1000))
        shortfall == Less(Fraction(brl_balance, 1), total_required)
        available_for_trade ==
            Reduced(Fraction(brl_balance * (1000 - taker_fee_rate - FeeBufferPerMille),
                             1000))
    IN  [total_required |-> total_required, shortfall |-> shortfall,
         abort |-> shortfall /\ BelowFloor(available_for_trade),
         trade_amount |-> IF shortfall THEN available_for_trade
                          ELSE Times(gross_amount,
                                     Fraction(1000 - taker_fee_rate, 1000))]

\* FeeManager.round_quantity(quantity, symbol, is_sell_order=False) of a
\* quantity that is a fraction of a unit.
RoundBuyQuantity(quantity, rules, filters) ==
    IF filters = "none"
    THEN quantity
    ELSE Fraction(EnsureMinimum(RoundHalfEven(quantity.num,
                                              quantity.den * rules.stepSize)
                                    * rules.stepSize,
                                rules.minQty), 1)

\* RSIVolumeStrategy.calculate_position_size.  w = [brl_balance, btc_balance,
\* price, trade_percentage, include_fees, taker_fee_rate, rules, filters].
\* A price of 0 raises at the division and the except returns 0.0.
calculate_position_size(w) ==
    LET total_wallet_brl == w.brl_balance + w.btc_balance * w.price
        desired == Reduced(Fraction(total_wallet_brl * w.trade_percentage, 100))
        adjusted == IF w.include_fees
                    THEN FeeAdjusted(desired, w.brl_balance, w.taker_fee_rate)
                    ELSE [total_required |-> desired, shortfall |-> FALSE,
                          abort |-> FALSE, trade_amount |-> desired]
        trade_amount == adjusted.trade_amount
        caught == ~adjusted.abort /\ w.price = 0
        raw == IF w.price = 0 THEN Fraction(0, 1)
               ELSE Reduced(Fraction(trade_amount.num, trade_amount.den * w.price))
        below == adjusted.abort \/ (~caught /\ BelowFloor(trade_amount))
    IN  [desired |-> desired, total_required |-> adjusted.total_required,
         shortfall |-> adjusted.shortfall, trade_amount |-> trade_amount,
         raw_quantity |-> raw, caught |-> caught, below_floor |-> below,
         quantity |-> IF below \/ caught THEN Fraction(0, 1)
                      ELSE RoundBuyQuantity(raw, w.rules, w.filters)]

\* The wallets, prices and settings the method is called under.
SizingInputs ==
    [brl_balance : {0, 50, 51, 990, 999, 1000, 2000}, btc_balance : {0, 50, 100},
     price : {0, 10, 25}, trade_percentage : {5, 10}, include_fees : BOOLEAN,
     taker_fee_rate : {TakerFeePerMille, 2},
     rules : {r \in SymbolRules : r.minQty \in {0, MaxMinQty}},
     filters : {"none", "lot"}]

SizingCall ==
    /\ call.op = "none"
    /\ \E w \in SizingInputs :
        call' = [op |-> "calculate_position_size", input |-> w,
                 result |-> calculate_position_size(w)]
    /\ UNCHANGED <<bot, strategy, tick, rq, bt, sma_strategy, rsi_indicator,
                 rsi_volume_strategy>>

\* The live bot as TradingBot.__init__ wires it: self.strategy is the
\* SimpleMovingAverageStrategy, which has no fee_manager.
Init ==
    /\ bot \in InitBots
    /\ strategy \in {InitStrategy(FALSE, w) : w \in WalletBTC}
    /\ tick = NoTick
    /\ call = NoCall
    /\ rq = NoCall
    /\ bt = NoBacktest
    /\ sma_strategy = NoStrategy
    /\ rsi_indicator = NoIndicator
    /\ rsi_volume_strategy = NoOscillator

Next == TickStart \/ TickBuy \/ TickSell

Spec == Init /\ [][Next]_vars

\* The live bot driving a strategy that has the fee_manager the two order
\* handlers read (trading_bot.py lines 443 and 534).
InitFeeAware ==
    /\ bot \in InitBots
    /\ strategy \in {InitStrategy(TRUE, w) : w \in WalletBTC}
    /\ tick = NoTick
    /\ call = NoCall
    /\ rq = NoCall
    /\ bt = NoBacktest
    /\ sma_strategy = NoStrategy
    /\ rsi_indicator = NoIndicator
    /\ rsi_volume_strategy = NoOscillator

SpecFeeAware == InitFeeAware /\ [][Next]_vars

\* The fee-aware bot started with MAX_DAILY_TRADES=1.
InitDailyLimit ==
    /\ bot \in {[b EXCEPT !.config.max_daily_trades = 1] : b \in InitBots}
    /\ strategy \in {InitStrategy(TRUE, w) : w \in WalletBTC}
    /\ tick = NoTick
    /\ call = NoCall
    /\ rq = NoCall
    /\ bt = NoBacktest
    /\ sma_strategy = NoStrategy
    /\ rsi_indicator = NoIndicator
    /\ rsi_volume_strategy = NoOscillator

SpecDailyLimit == InitDailyLimit /\ [][Next]_vars

\* No bot running: the state before a call of FeeManager.round_quantity or
\* BacktestEngine.run_backtest on their own.
InitIdle ==
    /\ bot = CHOOSE b \in InitBots : TRUE
    /\ strategy = InitStrategy(TRUE, 0)
    /\ tick = NoTick
    /\ call = NoCall
    /\ rq = NoCall
    /\ bt = NoBacktest
    /\ sma_strategy = NoStrategy
    /\ rsi_indicator = NoIndicator
    /\ rsi_volume_strategy = NoOscillator

NextRound == RoundCall \/ RoundBuyCall

SpecRound == InitIdle /\ [][NextRound]_vars

\* BacktestEngine.run_backtest on its own.
NextBacktest == BacktestStart \/ BacktestTick \/ BacktestFinish

SpecBacktest == InitIdle /\ [][NextBacktest]_vars

\* run_backtest replaying a series through a SimpleMovingAverageStrategy.
NextCrossover == CrossoverStart \/ CrossoverTick \/ BacktestFinish

SpecCrossover == InitIdle /\ [][NextCrossover]_vars

\* An RSIIndicator fed with prices.
NextOscillator ==
    OscillatorStart \/ OscillatorTick \/ EvaluateShouldBuy \/ EvaluateShouldSell

SpecOscillator == InitIdle /\ [][NextOscillator]_vars

NextIndicator == IndicatorStart \/ AddPrice

SpecIndicator == InitIdle /\ [][NextIndicator]_vars

\* The methods of Position called on their own.
NextPosition == ProfitCall \/ RoundTripCall

SpecPosition == InitIdle /\ [][NextPosition]_vars

\* RSIVolumeStrategy.calculate_position_size called on its own.
NextSizing == SizingCall

SpecSizing == InitIdle /\ [][NextSizing]_vars

-----------------------------------------------------------------------------
(* The two evaluation methods of TradingBot called on their own.           *)

\* Holding times around the minimum holding time (30 minutes) and the
\* maximum position age (60 minutes).
HoldingTimes == {0, 29, 30, 59, 60}

\* The tracked position at the time of the call: none, or 4 units bought at
\* 10, with or without the buy fee booked.
CallPositions(now) ==
    {NoPosition} \cup {from_dict(4, 10, now - h, f) : h \in HoldingTimes, f \in {0, 40}}

InitCalls ==
    /\ bot \in UNION {{[b EXCEPT !.current_position = p] :
                           p \in CallPositions(b.now)} : b \in InitBots}
    /\ strategy = InitStrategy(FALSE, 0)
    /\ tick = NoTick
    /\ call = NoCall
    /\ rq = NoCall
    /\ bt = NoBacktest
    /\ sma_strategy = NoStrategy
    /\ rsi_indicator = NoIndicator
    /\ rsi_volume_strategy = NoOscillator

EvaluateBuyCall ==
    /\ \E sma_buy \in BOOLEAN, rsi_buy \in BOOLEAN, rsi \in RsiStates :
        call' = [op |-> "_evaluate_buy_signals", sma_buy |-> sma_buy,
                 rsi_buy |-> rsi_buy, rsi |-> rsi,
                 result |-> _evaluate_buy_signals(sma_buy, rsi_buy, rsi,
                                                  bot.counters)]
    /\ UNCHANGED <<bot, strategy, tick, rq, bt, sma_strategy, rsi_indicator,
                 rsi_volume_strategy>>

EvaluateSellCall ==
    /\ \E sma_sell \in BOOLEAN, rsi_sell \in BOOLEAN, rsi \in RsiStates,
          price \in Prices \cup {0} :
        call' = [op |-> "_evaluate_sell_signals", sma_sell |-> sma_sell,
                 rsi_sell |-> rsi_sell, rsi |-> rsi, price |-> price,
                 result |-> _evaluate_sell_signals(bot.current_position, price,
                                                   bot.now, sma_sell, rsi_sell,
                                                   rsi, bot.config, bot.counters)]
    /\ UNCHANGED <<bot, strategy, tick, rq, bt, sma_strategy, rsi_indicator,
                 rsi_volume_strategy>>

NextCalls == EvaluateBuyCall \/ EvaluateSellCall

SpecCalls == InitCalls /\ [][NextCalls]_vars

-----------------------------------------------------------------------------
(* Properties.                                                             *)

\* C1: with a tracked position, whenever a forced exit holds (profit, age or
\* stop loss) _evaluate_sell_signals answers sell, whatever the holding time,
\* the two sell signals and the RSI state.
C1_ForcedExitSells ==
    (/\ call.op = "_evaluate_sell_signals"
     /\ bot.current_position.open
     /\ ForcedExit(bot.current_position, call.price, bot.now, bot.config))
        => call.result.sell

\* A forced exit answered with sell although the position is younger than the
\* minimum holding time and neither strategy signals a sell.
C1_Witness ==
    /\ call.op = "_evaluate_sell_signals"
    /\ bot.current_position.open
    /\ ForcedExit(bot.current_position, call.price, bot.now, bot.config)
    /\ TooYoung(bot.current_position, bot.now, bot.config)
    /\ ~call.sma_sell /\ ~call.rsi_sell
    /\ call.result.sell

\* C2: with a tracked position, no forced exit and a holding time below the
\* minimum, _evaluate_sell_signals answers no sell whatever the signals; the
\* combined-signal rules are reached only at or above the minimum holding time.
C2_VetoBlocksCombinedRules ==
    (call.op = "_evaluate_sell_signals" /\ bot.current_position.open)
        => /\ (/\ ~ForcedExit(bot.current_position, call.price, bot.now, bot.config)
               /\ TooYoung(bot.current_position, bot.now, bot.config))
                  => ~call.result.sell
           /\ call.result.consulted
                  => ~TooYoung(bot.current_position, bot.now, bot.config)

\* Both strategies signal a sell, the counters exist, no forced exit holds and
\* the position is too young: no sell.
C2_Witness ==
    /\ call.op = "_evaluate_sell_signals"
    /\ bot.current_position.open
    /\ bot.counters
    /\ ~ForcedExit(bot.current_position, call.price, bot.now, bot.config)
    /\ TooYoung(bot.current_position, bot.now, bot.config)
    /\ call.sma_sell /\ call.rsi_sell
    /\ ~call.result.sell /\ ~call.result.consulted

\* C3: _evaluate_buy_signals returns the first matching tier in the priority
\* Strong > Conservative > Moderate > none, for every input.
C3_BuyTierPriority ==
    call.op = "_evaluate_buy_signals"
        => call.result = BuyTier(call.sma_buy, call.rsi_buy, call.rsi)

\* C4: in every iteration the buy handler is invoked only if no holding and
\* a STRONG or CONSERVATIVE tier, or a holding and a STRONG tier.
C4_BuyPolicy ==
    tick.buy_attempted
        => \/ ~tick.has_position /\ tick.strength \in {"STRONG", "CONSERVATIVE"}
           \/ tick.has_position /\ tick.strength = "STRONG"

\* A buy attempted on a CONSERVATIVE tier without a holding.
C4_Witness ==
    /\ tick.buy_attempted
    /\ ~tick.has_position
    /\ tick.strength = "CONSERVATIVE"

C6_RoundForSellContract ==
    (rq.op = "round_sell" /\ rq.filters # "none")
        => /\ rq.result <= rq.available
           /\ Abs(rq.result - RoundHalfEven(rq.result, rq.rules.stepSize)
                                  * rq.rules.stepSize) <= QtyTolerance
           /\ IF rq.available < rq.rules.minQty
              THEN rq.result = 0
              ELSE rq.result >= rq.rules.minQty

\* C7: when place_order raises, the handler reports failure and the step
\* leaves the strategy (trades, holdings), the tracked Position, daily_trades
\* and total_trades as they were.
C7_PlacementFailureLeavesState ==
    [][ LET same == /\ strategy' = strategy
                    /\ bot'.current_position = bot.current_position
                    /\ bot'.daily_trades = bot.daily_trades
                    /\ bot'.total_trades = bot.total_trades
        IN  /\ (/\ bot.pc = "signals"
                /\ tick'.buy_sent.side = "BUY" /\ ~tick'.buy_placed)
                   => same /\ ~tick'.buy_ok
            /\ (/\ bot.pc = "sell"
                /\ tick'.sell_sent.side = "SELL" /\ ~tick'.sell_placed)
                   => same /\ ~tick'.sell_ok ]_vars

\* A sell order for a tracked position whose placement raised.
C7_Witness ==
    /\ tick.sell_sent.side = "SELL"
    /\ ~tick.sell_placed
    /\ tick.position.open
    /\ strategy.positions = tick.held

\* C8: when the price fetch of an iteration fails, nothing is evaluated and
\* no order is sent in that iteration.
C8_FetchFailureAbortsTick ==
    (\/ tick.evaluated
     \/ tick.sell_evaluated
     \/ tick.buy_sent.side # "NONE"
     \/ tick.sell_sent.side # "NONE")
        => tick.fetched

\* C9: place_order is called only with a quantity within [minQty, maxQty],
\* aligned to stepSize within the tolerance, and with quantity * price at or
\* above minNotional.
C9_OrdersObeyRules ==
    \A o \in {tick.buy_sent, tick.sell_sent} :
        o.side # "NONE"
            => /\ LotSizeOk(o.quantity, LiveRules)
               /\ o.quantity * o.price >= LiveRules.minNotional

\* The scenario of C10: a finished backtest over non-decreasing prices in
\* which every tick signals buy, the first with an affordable quantity > 0.
C10_Scenario ==
    /\ bt.pc = "done"
    /\ \A i \in 1..Len(bt.data) :
          bt.data[i].signal.kind = "buy" /\ ~bt.data[i].signal.should_sell
    /\ \A i \in 1..(Len(bt.data) - 1) : bt.data[i].price <= bt.data[i + 1].price
    /\ bt.data[1].signal.quantity > 0
    /\ bt.data[1].signal.quantity * bt.data[1].price <= bt.initial_balance

\* What C10 promises of the result: one Buy at the first tick, no Sell, the
\* final balance, and no drawdown.
C10_Result ==
    LET qty == bt.data[1].signal.quantity
        buyPrice == bt.data[1].price
        lastPrice == bt.data[Len(bt.data)].price
    IN  /\ bt.trades = <<[side |-> "BUY", quantity |-> qty, price |-> buyPrice]>>
        /\ bt.final_balance = bt.initial_balance - qty * buyPrice + qty * lastPrice
        /\ bt.max_drawdown.num = 0

\* C10 as stated: in the scenario the result is one Buy, no Sell,
\* final_balance = initial_balance - qty*buyPrice + qty*lastPrice and
\* max_drawdown = 0.
C10_BuyAndHoldAsStated == C10_Scenario => C10_Result

\* C10 amended: the same, for a series whose ticks carry the symbol that
\* run_backtest was called with.
C10_BuyAndHold == (C10_Scenario /\ bt.symbol_matches) => C10_Result

\* A finished buy-and-hold run over rising prices of the run's symbol.
C10_Witness ==
    /\ C10_Scenario
    /\ bt.symbol_matches
    /\ Len(bt.data) >= 2
    /\ bt.data[1].price < bt.data[Len(bt.data)].price
    /\ bt.final_balance > bt.initial_balance

\* The scenario of C11: a fresh crossover strategy with short_period <
\* long_period, replayed over a strictly increasing series.
C11_Scenario ==
    /\ sma_strategy.pc = "run"
    /\ sma_strategy.fresh
    /\ sma_strategy.short_period < sma_strategy.long_period
    /\ Len(bt.data) >= 1
    /\ \A i \in 1..(Len(bt.data) - 1) : bt.data[i].price < bt.data[i + 1].price

C12_SentinelNeverCompared ==
    sma_strategy.pc = "run"
        => LET h == sma_strategy.price_history
               short_period == sma_strategy.short_period
               long_period == sma_strategy.long_period
           IN  /\ \A period \in {short_period, long_period} :
                     Len(h) < period => _calculate_sma(h, period, 0).num = 0
               /\ Len(h) < long_period + 1
                     => ~sma_strategy.last.should_buy /\ ~sma_strategy.last.death_cross
               /\ (Len(bt.data) >= 1 /\ Len(h) >= long_period + 1)
                     => \A period \in {short_period, long_period} :
                            \A offset \in {0, -1} :
                                ~ReturnsSentinel(h, period, offset)

\* The window of an indicator holds period + 1 prices.
C13_WindowFull ==
    Len(rsi_indicator.price_history) = rsi_indicator.period + 1

\* The held prices fall (rise) strictly from each one to the next.
C13_Falling ==
    \A i \in 1..(Len(rsi_indicator.price_history) - 1) :
        rsi_indicator.price_history[i] > rsi_indicator.price_history[i + 1]

C13_Rising ==
    \A i \in 1..(Len(rsi_indicator.price_history) - 1) :
        rsi_indicator.price_history[i] < rsi_indicator.price_history[i + 1]

\* C13: after any sequence of add_price calls calculate_rsi lies in [0,100];
\* it is 50 below period + 1 prices, 100 on a window without a loss (a flat
\* one included), 0 on a strictly falling window and 100 on a strictly
\* rising one.
C13_RsiBoundedAndEdges ==
    call.op = "calculate_rsi"
        => LET rsi == call.result
               h == rsi_indicator.price_history
           IN  /\ LessEq(Fraction(0, 1), rsi) /\ LessEq(rsi, Fraction(100, 1))
               /\ ~C13_WindowFull => rsi = Fraction(50, 1)
               /\ (C13_WindowFull /\ \A i \in 1..(Len(h) - 1) : h[i] <= h[i + 1])
                     => Equal(rsi, Fraction(100, 1))
               /\ (C13_WindowFull /\ C13_Falling) => Equal(rsi, Fraction(0, 1))
               /\ (C13_WindowFull /\ C13_Rising) => Equal(rsi, Fraction(100, 1))

\* A full window of four strictly falling prices, answered with 0.
C13_Witness ==
    /\ call.op = "calculate_rsi"
    /\ rsi_indicator.period = 3
    /\ C13_WindowFull
    /\ C13_Falling
    /\ call.result.num = 0

\* The case of C14: a call on a newly created Position without fees, at the
\* entry price.
C14_Scenario ==
    /\ call.op = "calculate_profit_percentage"
    /\ call.position \in
           {NewPosition(call.position.quantity, call.position.buy_price,
                        call.position.buy_time)}
    /\ call.current_price = call.position.buy_price

\* C14 as stated: in that case calculate_profit_percentage returns 0.
C14_ZeroAtEntryAsStated == C14_Scenario => call.result.num = 0

\* C14 amended: in that case the result is -100 * sell_fee_rate: -0.1 with
\* the default rate, and 0 exactly when the call passes sell_fee_rate = 0.
C14_ZeroAtEntryWithoutSellFee ==
    C14_Scenario
        => /\ Equal(call.result, Fraction(-call.sell_fee_rate, 10))
           /\ call.result.num = 0 <=> call.sell_fee_rate = 0

\* A new Position evaluated at its entry price with sell_fee_rate = 0.
C14_Witness ==
    /\ C14_Scenario
    /\ call.sell_fee_rate = 0
    /\ call.position.quantity = 4
    /\ call.result.num = 0

\* C17: Position.from_dict(p.to_dict()) has the symbol, quantity, entry
\* price, entry time and fees paid of p.
C17_DictRoundTrip ==
    call.op = "from_dict"
        => /\ call.result.symbol = call.symbol
           /\ call.result.position.quantity = call.position.quantity
           /\ call.result.position.buy_price = call.position.buy_price
           /\ call.result.position.buy_time = call.position.buy_time
           /\ call.result.position.fees_paid = call.position.fees_paid

\* The round trip of a position that a second buy was added to, a day and an
\* hour after midnight: the five fields are kept while buy_value is
\* recomputed.
C17_Witness ==
    /\ call.op = "from_dict"
    /\ call.position.fees_paid > 0
    /\ call.position.buy_time = MinutesPerDay + MinutesPerHour
    /\ call.position.buy_value # call.position.quantity * call.position.buy_price
    /\ call.result.position.buy_value # call.position.buy_value
    /\ call.result.position.fees_paid = call.position.fees_paid

\* C15: with fees included, a positive price and no shortfall (the gross
\* amount plus the buffer is covered by the quote balance), the trade amount
\* is the desired net amount totalWallet * tradePercentage / 100 and the raw
\* quantity is that amount over the price; in the stated scenario (wallet
\* 1000, 5 %, fee 0.001, buffer 0.2 %) the amount is 50 and the floor of 50
\* does not abort the order.
C15_GrossUpCancels ==
    (/\ call.op = "calculate_position_size"
     /\ call.input.include_fees
     /\ call.input.price > 0
     /\ ~call.result.shortfall)
        => /\ Equal(call.result.trade_amount, call.result.desired)
           /\ Equal(call.result.raw_quantity,
                    Fraction(call.result.desired.num,
                             call.result.desired.den * call.input.price))
           /\ (/\ call.input.brl_balance = 1000 /\ call.input.btc_balance = 0
               /\ call.input.trade_percentage = 5
               /\ call.input.taker_fee_rate = TakerFeePerMille)
                  => /\ call.result.trade_amount = Fraction(MinTradeAmount, 1)
                     /\ Less(Fraction(MinTradeAmount, 1), call.result.total_required)
                     /\ ~call.result.below_floor

\* The stated scenario at price 10: amount 50, five units bought.
C15_Witness ==
    /\ call.op = "calculate_position_size"
    /\ call.input.include_fees
    /\ call.input.brl_balance = 1000 /\ call.input.btc_balance = 0
    /\ call.input.trade_percentage = 5
    /\ call.input.taker_fee_rate = TakerFeePerMille
    /\ call.input.price = 10
    /\ call.input.filters = "none"
    /\ ~call.result.shortfall
    /\ call.result.quantity = Fraction(5, 1)

\* C16: calculate_position_size returns 0 whenever the final trade amount is
\* below 50; on a shortfall the amount is quoteBalance * (1 - takerFeeRate -
\* feeBuffer/100) and the same floor applies; a quantity other than 0 is
\* returned only for an amount of at least 50.
C16_FloorAborts ==
    call.op = "calculate_position_size"
        => /\ Less(call.result.trade_amount, Fraction(MinTradeAmount, 1))
                 => call.result.quantity.num = 0
           /\ (call.input.include_fees /\ call.result.shortfall)
                 => Equal(call.result.trade_amount,
                          Fraction(call.input.brl_balance
                                       * (1000 - call.input.taker_fee_rate
                                               - FeeBufferPerMille), 1000))
           /\ call.result.quantity.num # 0
                 => LessEq(Fraction(MinTradeAmount, 1), call.result.trade_amount)

\* A shortfall whose fallback amount (50 * 0.997) is below the floor.
C16_Witness ==
    /\ call.op = "calculate_position_size"
    /\ call.input.include_fees
    /\ call.input.price > 0
    /\ call.result.shortfall
    /\ call.input.brl_balance = 50
    /\ LessEq(Fraction(MinTradeAmount, 1), call.result.desired)
    /\ call.result.below_floor
    /\ call.result.quantity.num = 0

\* C18: a backtest buy is executed exactly when the quantity is above 0, no
\* holding is open and the cash covers quantity * price, and then moves that
\* amount from the cash into the holding and appends one Buy trade; otherwise
\* cash, holding and trades stay as they were.  The cash never falls below 0
\* and the Buy trades outnumber the Sell trades by one exactly while a
\* holding is open, by none otherwise.
C18_BuyGuards ==
    [][ (bt.pc = "run" /\ bt'.pc = "run")
          => LET t == bt'.data[Len(bt'.data)]
                 quantity == t.signal.quantity
                 allowed == /\ quantity > 0
                            /\ bt.positions = 0
                            /\ bt.current_balance >= quantity * t.price
                 buys == Cardinality({i \in 1..Len(bt'.trades) :
                                          bt'.trades[i].side = "BUY"})
                 sells == Cardinality({i \in 1..Len(bt'.trades) :
                                           bt'.trades[i].side = "SELL"})
             IN  /\ t.signal.kind = "buy"
                    => IF allowed
                       THEN /\ bt'.current_balance
                                   = bt.current_balance - quantity * t.price
                            /\ bt'.positions = quantity
                            /\ bt'.trades = Append(bt.trades,
                                                   [side |-> "BUY",
                                                    quantity |-> quantity,
                                                    price |-> t.price])
                       ELSE /\ bt'.current_balance = bt.current_balance
                            /\ bt'.positions = bt.positions
                            /\ bt'.trades = bt.trades
                 /\ bt'.current_balance >= 0
                 /\ buys - sells = IF bt'.positions > 0 THEN 1 ELSE 0 ]_vars

\* A first buy executed, then a second buy skipped because of the holding.
C18_Witness ==
    /\ bt.pc = "run"
    /\ Len(bt.data) = 2
    /\ bt.data[1].signal.kind = "buy" /\ bt.data[2].signal.kind = "buy"
    /\ bt.data[2].signal.quantity > 0
    /\ Len(bt.trades) = 1
    /\ bt.positions = bt.data[1].signal.quantity
    /\ bt.current_balance = bt.initial_balance - bt.positions * bt.data[1].price

\* C19: on every tick where should_sell is true and a holding exists, the
\* whole holding is sold on that tick: the cash grows by quantity * price, the
\* holding is cleared, a Sell trade is appended and its P&L recorded; without
\* a holding the sell changes nothing.
C19_SellSignalSellsHolding ==
    [][ (bt.pc = "run" /\ bt'.pc = "run" /\ bt'.data[Len(bt'.data)].signal.should_sell)
          => LET t == bt'.data[Len(bt'.data)]
             IN  IF bt.positions > 0
                 THEN /\ bt'.current_balance
                             = bt.current_balance + bt.positions * t.price
                      /\ bt'.positions = 0
                      /\ Len(bt'.trades) = Len(bt.trades) + 1
                      /\ bt'.trades[Len(bt'.trades)]
                             = [side |-> "SELL", quantity |-> bt.positions,
                                price |-> t.price]
                      /\ Len(bt'.returns) = Len(bt.returns) + 1
                 ELSE t.signal.kind = "sell"
                         => /\ bt'.current_balance = bt.current_balance
                            /\ bt'.positions = bt.positions
                            /\ bt'.trades = bt.trades
                            /\ bt'.returns = bt.returns ]_vars

\* C20: a buy that succeeds while a Position is tracked adds the bought
\* quantity to its quantity and the estimated fee to its fees paid, and
\* leaves entry price, entry time and entry value as they were; it remains
\* the one tracked Position.
C20_AdditiveBuyFrame ==
    [][ (/\ bot.pc = "signals"
         /\ bot.current_position.open
         /\ tick'.buy_sent.side = "BUY" /\ tick'.buy_placed)
          => bot'.current_position =
                 [bot.current_position EXCEPT
                      !.quantity = @ + tick'.buy_sent.quantity,
                      !.fees_paid = @ + EstimatedFee(tick'.buy_sent.quantity,
                                                     tick'.price)] ]_vars

\* A tracked position after an additive buy: its entry value is no longer
\* quantity * entry price.
C20_Witness ==
    /\ tick.buy_sent.side = "BUY" /\ tick.buy_placed
    /\ bot.current_position.open
    /\ bot.current_position.buy_value
           # bot.current_position.quantity * bot.current_position.buy_price
    /\ bot.current_position.fees_paid > 0

\* C21: on every iteration on which the buy policy decides to buy and
\* calculate_position_size returns a quantity above 0, execute_buy is called
\* in that iteration.
C21_SizedBuyReachesExecution ==
    (tick.buy_attempted /\ tick.buy_sized > 0) => tick.buy_called


\* C22 (as stated): after n ticks of run_backtest the equity curve holds n
\* entries, and the entry of tick i is (timestamp of tick i, cash after tick i
\* + held quantity * price of tick i).
C22_OneEntryPerTick ==
    [][(bt.pc = "run" /\ bt'.pc = "run") =>
        LET n == Len(bt'.data)
        IN  /\ Len(bt'.equity_curve) = n
            /\ bt'.equity_curve[n] =
                   [timestamp |-> n,
                    equity |-> bt'.current_balance
                               + bt'.positions * bt'.data[n].price]]_vars

\* C22 (amended): the equity curve starts with the entry (timestamp of the
\* first tick, initial balance) and every tick, trade or no trade, appends one
\* entry (timestamp of the tick, cash after the tick, plus held quantity * the
\* tick's price when the ticks carry the symbol of the run), leaving the
\* earlier entries as they were: n ticks give n + 1 entries in tick order.
C22_SeedThenOneEntryPerTick ==
    [][(bt.pc = "run" /\ bt'.pc = "run") =>
        LET n == Len(bt'.data)
        IN  /\ Len(bt'.equity_curve) = n + 1
            /\ bt'.equity_curve[1] =
                   [timestamp |-> 1, equity |-> bt'.initial_balance]
            /\ bt'.equity_curve =
                   Append(bt.equity_curve,
                          [timestamp |-> n,
                           equity |-> bt'.current_balance
                               + (IF bt'.symbol_matches
                                  THEN bt'.positions * bt'.data[n].price
                                  ELSE 0)])]_vars

\* Three ticks replayed, the last one without a trade while a holding of the
\* run's symbol is open: four entries, the last above the cash.
C22_Witness ==
    /\ bt.pc = "run"
    /\ sma_strategy.pc = "none"
    /\ Len(bt.data) = 3
    /\ bt.data[3].signal.kind = "none"
    /\ bt.positions > 0
    /\ bt.symbol_matches
    /\ Len(bt.equity_curve) = 4
    /\ bt.equity_curve[4].equity > bt.current_balance


\* C23: round_quantity in buy / unknown-balance mode returns the multiple of
\* stepSize nearest to the raw quantity, raised to minQty when below it, and
\* validate_order_parameters accepts that result.
C23_BuyRoundingAccepted ==
    rq.op = "round_buy"
        => /\ rq.result = EnsureMinimum(RoundNearest(rq.quantity, rq.rules.stepSize),
                                        rq.rules.minQty)
           /\ rq.valid


C25_TrackersAgree ==
    (bot.pc = "start" /\ tick.evaluated)
        => (bot.current_position.open <=> has_position(strategy))


\* C26: each market tick contributes its price and quote volume to the RSI
\* and volume windows exactly once, however often should_buy / should_sell are
\* evaluated on it, and evaluating the same signal again on the tick returns
\* the same result.
C26_OneContributionPerTick ==
    (rsi_volume_strategy.pc = "run" /\ rsi_volume_strategy.results # <<>>)
        => /\ rsi_volume_strategy.added = 1
           /\ \A i, j \in 1..Len(rsi_volume_strategy.results) :
                  rsi_volume_strategy.results[i].op = rsi_volume_strategy.results[j].op
                      => rsi_volume_strategy.results[i].result
                             = rsi_volume_strategy.results[j].result


\* C27: for a position built by one buy followed by additive buys,
\* from_dict(to_dict(p)) has the entry value of p and gives, at every price,
\* the profit percentage and the profit and stop-loss exit decisions of p.
C27_RoundTripKeepsExits ==
    call.op = "from_dict"
        => LET p == call.position
               q == call.result.position
           IN  /\ q.buy_value = p.buy_value
               /\ \A price \in Prices, pct \in {2, 5} :
                      /\ Reduced(calculate_profit_percentage(q, price, SellFeePerMille))
                             = Reduced(calculate_profit_percentage(p, price,
                                                                   SellFeePerMille))
                      /\ should_sell_for_profit(q, price, pct)
                             <=> should_sell_for_profit(p, price, pct)
                      /\ should_sell_for_stop_loss(q, price, pct)
                             <=> should_sell_for_stop_loss(p, price, pct)


C29_TradesAlternate ==
    bt.pc \in {"run", "done"}
        => /\ \A i \in 1..Len(bt.trades) :
                  bt.trades[i].side = (IF i % 2 = 1 THEN "BUY" ELSE "SELL")
           /\ Len(bt.returns) = Len(bt.trades) \div 2
           /\ \A k \in 1..Len(bt.returns) :
                  /\ bt.trades[2 * k].quantity = bt.trades[2 * k - 1].quantity
                  /\ bt.returns[k] =
                         bt.trades[2 * k].quantity * bt.trades[2 * k].price
                         - bt.trades[2 * k - 1].quantity * bt.trades[2 * k - 1].price

\* Two round trips replayed, the second one bought at another price than the
\* first: the second P&L is taken against the second Buy.
C29_Witness ==
    /\ bt.pc = "done"
    /\ Len(bt.trades) = 4
    /\ Len(bt.returns) = 2
    /\ bt.trades[3].price # bt.trades[1].price
    /\ bt.returns[2] # bt.trades[4].quantity * bt.trades[4].price
                           - bt.trades[1].quantity * bt.trades[1].price


\* C30: whenever no holding is open during a replay, the cash is the initial
\* balance plus the sum of the recorded round-trip P&Ls; for a replay that
\* ends with no holding, final_balance - initial_balance is total_pnl and
\* total_return is total_pnl / initial_balance * 100.
C30_CashIsInitialPlusPnl ==
    (bt.pc \in {"run", "done"} /\ bt.positions = 0)
        => /\ bt.current_balance = bt.initial_balance + Sum(bt.returns)
           /\ bt.pc = "done"
                  => /\ bt.final_balance - bt.initial_balance = bt.result.total_pnl
                     /\ Equal(bt.result.total_return,
                              Fraction(bt.result.total_pnl * 100, bt.initial_balance))

\* A replay that ends flat after two round trips with a total P&L other than 0.
C30_Witness ==
    /\ bt.pc = "done"
    /\ bt.positions = 0
    /\ Len(bt.returns) = 2
    /\ bt.result.total_pnl # 0
    /\ bt.final_balance # bt.initial_balance

=============================================================================
